---------------------------- MODULE Spec2Model ----------------------------
(***************************************************************************)
(* Model of src/poha.py: the financial engine calculate_financials and the *)
(* parts of render_dashboard that call it (breakeven helper, 11-point      *)
(* sensitivity sweep).                                                     *)
(*                                                                         *)
(* Numbers.  The program computes on Python floats.  The model computes on *)
(* exact rationals (sign, numerator, denominator), with numerator and      *)
(* denominator held as arbitrary-precision naturals so that the default    *)
(* scenario (revenues of order 10^8, divided by 365 and by 100 several     *)
(* times) is representable.  Equalities between computed quantities are    *)
(* therefore the exact ones; floating-point rounding is not modelled.      *)
(* float('inf') is the rational with denominator zero.                     *)
(***************************************************************************)
EXTENDS Integers, Sequences, FiniteSets, TLC

(***************************************************************************)
(* Arbitrary-precision naturals: little-endian sequences of limbs in       *)
(* 0 .. Base-1 with no leading (high) zero limb; zero is the empty         *)
(* sequence.                                                               *)
(***************************************************************************)
Base == 100 * 100

RECURSIVE BigOfNat(_)
BigOfNat(n) ==
    IF n = 0 THEN << >> ELSE <<n % Base>> \o BigOfNat(n \div Base)

RECURSIVE BigTrim(_)
BigTrim(a) ==
    IF a = << >> THEN a
    ELSE IF a[Len(a)] = 0 THEN BigTrim(SubSeq(a, 1, Len(a) - 1))
    ELSE a

RECURSIVE BigAddC(_, _, _)
BigAddC(a, b, c) ==
    IF b = << >> /\ c = 0 THEN a
    ELSE IF a = << >> /\ c = 0 THEN b
    ELSE IF a = << >> /\ b = << >> THEN <<c>>
    ELSE LET x == IF a = << >> THEN 0 ELSE Head(a)
             y == IF b = << >> THEN 0 ELSE Head(b)
             s == x + y + c
         IN  <<s % Base>> \o BigAddC(IF a = << >> THEN a ELSE Tail(a),
                                     IF b = << >> THEN b ELSE Tail(b),
                                     s \div Base)

BigAdd(a, b) == BigAddC(a, b, 0)

RECURSIVE BigCmpAt(_, _, _)
BigCmpAt(a, b, i) ==
    IF i = 0 THEN 0
    ELSE IF a[i] > b[i] THEN 1
    ELSE IF a[i] < b[i] THEN -1
    ELSE BigCmpAt(a, b, i - 1)

BigCmp(a, b) ==
    IF Len(a) > Len(b) THEN 1
    ELSE IF Len(a) < Len(b) THEN -1
    ELSE BigCmpAt(a, b, Len(a))

RECURSIVE BigSubB(_, _, _)
BigSubB(a, b, br) ==
    IF a = << >> THEN << >>
    ELSE IF b = << >> /\ br = 0 THEN a
    ELSE LET y == IF b = << >> THEN 0 ELSE Head(b)
             d == Head(a) - y - br
         IN  <<IF d < 0 THEN d + Base ELSE d>>
                 \o BigSubB(Tail(a), IF b = << >> THEN b ELSE Tail(b),
                            IF d < 0 THEN 1 ELSE 0)

\* a - b for a >= b
BigSub(a, b) == BigTrim(BigSubB(a, b, 0))

RECURSIVE BigMulSmall(_, _, _)
BigMulSmall(a, k, c) ==
    IF a = << >> THEN BigOfNat(c)
    ELSE LET p == Head(a) * k + c
         IN  <<p % Base>> \o BigMulSmall(Tail(a), k, p \div Base)

RECURSIVE BigMul(_, _)
BigMul(a, b) ==
    IF a = << >> \/ b = << >> THEN << >>
    ELSE LET hi   == BigMul(a, Tail(b))
             low  == IF Head(b) = 0 THEN << >> ELSE BigMulSmall(a, Head(b), 0)
         IN  BigAdd(low, IF hi = << >> THEN hi ELSE <<0>> \o hi)

\* a mod k and a div k for a machine-sized divisor 0 < k < 200000
RECURSIVE BigModAt(_, _, _, _)
BigModAt(a, k, i, r) ==
    IF i = 0 THEN r ELSE BigModAt(a, k, i - 1, (r * Base + a[i]) % k)

BigModSmall(a, k) == BigModAt(a, k, Len(a), 0)

RECURSIVE BigDivAt(_, _, _, _)
BigDivAt(a, k, i, r) ==
    IF i = 0 THEN << >>
    ELSE LET cur == r * Base + a[i]
         IN  BigDivAt(a, k, i - 1, cur % k) \o <<cur \div k>>

BigDivSmall(a, k) == BigTrim(BigDivAt(a, k, Len(a), 0))

RECURSIVE GCD(_, _)
GCD(m, n) == IF n = 0 THEN m ELSE GCD(n, m % n)

\* the value of a natural of at most two limbs
SmallVal(a) ==
    IF a = << >> THEN 0
    ELSE IF Len(a) = 1 THEN a[1]
    ELSE a[1] + Base * a[2]

\* divide numerator and denominator by every common power of the primes in ps
RECURSIVE StripPrimes(_, _, _)
StripPrimes(n, d, ps) ==
    IF ps = << >> THEN <<n, d>>
    ELSE LET p == Head(ps)
         IN  IF BigModSmall(n, p) = 0 /\ BigModSmall(d, p) = 0
             THEN StripPrimes(BigDivSmall(n, p), BigDivSmall(d, p), ps)
             ELSE StripPrimes(n, d, Tail(ps))

SmallPrimes == <<2, 3, 5, 7, 11, 13, 73>>

\* n and d divided by their common divisor g
ReduceBy(n, d, g) ==
    IF g = 1 THEN <<n, d>>
    ELSE IF g < Base THEN <<BigDivSmall(n, g), BigDivSmall(d, g)>>
    ELSE <<BigOfNat(SmallVal(n) \div g), BigOfNat(SmallVal(d) \div g)>>

\* a common divisor of n and d (both non-zero): the greatest one whenever
\* one of the two has a single limb or both have two, otherwise 1
CommonDivisor(n, d) ==
    IF Len(d) = 1 THEN GCD(d[1], BigModSmall(n, d[1]))
    ELSE IF Len(n) = 1 THEN GCD(n[1], BigModSmall(d, n[1]))
    ELSE IF Len(n) = 2 /\ Len(d) = 2 THEN GCD(SmallVal(n), SmallVal(d))
    ELSE 1

\* n/d (both non-zero) in lower terms: divided by CommonDivisor, or with the
\* small primes cancelled when both are long
Reduce(n, d) ==
    IF Len(n) > 1 /\ Len(d) > 1 /\ Len(n) + Len(d) > 4
    THEN StripPrimes(n, d, SmallPrimes)
    ELSE ReduceBy(n, d, CommonDivisor(n, d))

(***************************************************************************)
(* Rationals: [s |-> sign in {-1,0,1}, n |-> |numerator|, d |-> denom].    *)
(***************************************************************************)
Zero == [s |-> 0, n |-> << >>, d |-> <<1>>]

\* float('inf')
Inf == [s |-> 1, n |-> <<1>>, d |-> << >>]

IsInf(x) == x.d = << >>

RatOf(s, r) == [s |-> s, n |-> r[1], d |-> r[2]]

MkR(s, n, d) ==
    IF n = << >> \/ s = 0 THEN Zero ELSE RatOf(s, Reduce(n, d))

\* the rational p/q of two machine integers, q > 0
Q(p, q) == MkR(IF p > 0 THEN 1 ELSE IF p < 0 THEN -1 ELSE 0,
               BigOfNat(IF p < 0 THEN -p ELSE p), BigOfNat(q))

N(p) == Q(p, 1)

RNeg(x) == [x EXCEPT !.s = -x.s]

\* xs*xn/dd + ys*yn/dd for signs xs, ys # 0, with c = BigCmp(xn, yn)
AddSigned(xs, xn, ys, yn, dd, c) ==
    MkR(IF xs = ys \/ c >= 0 THEN xs ELSE ys,
        IF xs = ys THEN BigAdd(xn, yn)
        ELSE IF c >= 0 THEN BigSub(xn, yn)
        ELSE BigSub(yn, xn),
        dd)

AddOver(xs, xn, ys, yn, dd) == AddSigned(xs, xn, ys, yn, dd, BigCmp(xn, yn))

RAdd(x, y) ==
    IF x.s = 0 THEN y
    ELSE IF y.s = 0 THEN x
    ELSE AddOver(x.s, IF x.d = y.d THEN x.n ELSE BigMul(x.n, y.d),
                 y.s, IF x.d = y.d THEN y.n ELSE BigMul(y.n, x.d),
                 IF x.d = y.d THEN x.d ELSE BigMul(x.d, y.d))

RSub(x, y) == RAdd(x, RNeg(y))

RMul(x, y) ==
    IF x.s = 0 \/ y.s = 0 THEN Zero
    ELSE MkR(x.s * y.s, BigMul(x.n, y.n), BigMul(x.d, y.d))

\* x / y for y # 0
RDiv(x, y) ==
    IF x.s = 0 THEN Zero
    ELSE MkR(x.s * y.s, BigMul(x.n, y.d), BigMul(x.d, y.n))

\* -1, 0, 1 as x <, =, > y (finite x, y)
RCmp(x, y) ==
    IF x.s # y.s THEN (IF x.s > y.s THEN 1 ELSE -1)
    ELSE IF x.s = 0 THEN 0
    ELSE LET c == IF x.d = y.d THEN BigCmp(x.n, y.n)
                  ELSE BigCmp(BigMul(x.n, y.d), BigMul(y.n, x.d))
         IN  x.s * c

REq(x, y) == RCmp(x, y) = 0
RLt(x, y) == RCmp(x, y) < 0
RLe(x, y) == RCmp(x, y) <= 0
RGt(x, y) == RCmp(x, y) > 0

\* Python's max(a, b) and min(a, b): the first argument unless the second is
\* strictly greater (max) or strictly smaller (min)
RMax(x, y) == IF RGt(y, x) THEN y ELSE x
RMin(x, y) == IF RLt(y, x) THEN y ELSE x

(***************************************************************************)
(* CONFIG (src/poha.py 182-224): the sidebar's fields and default values.  *)
(***************************************************************************)
Defaults ==
    [ hours_per_day |-> N(10), days_per_month |-> N(24),
      paddy_rate_kg_hr |-> N(1000), paddy_yield |-> N(65),
      byproduct_sale_percent |-> N(32),
      paddy_rate |-> N(22), poha_price |-> N(45), byproduct_rate_kg |-> N(7),
      land_cost |-> N(0), civil_work_cost |-> N(0),
      machinery_cost |-> N(7000000), machinery_useful_life_years |-> N(15),
      packaging_cost |-> Q(1, 2), fuel_cost |-> N(0), other_var_cost |-> N(0),
      rent_per_month |-> N(300000), labor_per_month |-> N(400000),
      electricity_per_month |-> N(150000),
      security_ssc_insurance_per_month |-> N(300000),
      misc_per_month |-> N(300000),
      equity_contrib |-> N(30), interest_rate |-> N(9),
      tax_rate_percent |-> N(25),
      rm_inventory_days |-> N(72), fg_inventory_days |-> N(20),
      debtor_days |-> N(45), creditor_days |-> N(5) ]

(***************************************************************************)
(* calculate_financials (src/poha.py 256-348), one operator per formula.   *)
(***************************************************************************)
Hundred == N(100)

\* x * (pct / 100)
\* Pct without the division by 100
Pct_NoDivision(x, pct) == RMul(x, pct)

Pct(x, pct) == RMul(x, RDiv(pct, Hundred))

total_capex(inputs) ==
    RAdd(RAdd(inputs.land_cost, inputs.civil_work_cost), inputs.machinery_cost)

\* line 258: any(v <= 0 for v in [paddy_yield, poha_price, total_capex])
InvalidInputs(inputs) ==
    \/ RLe(inputs.paddy_yield, Zero)
    \/ RLe(inputs.poha_price, Zero)
    \/ RLe(total_capex(inputs), Zero)

\* line 259: the dict returned on invalid inputs
ErrorResult == [error |-> "Invalid inputs: Yield, Price, and Capex must be > 0"]

\* line 294 divides by machinery_useful_life_years with no guard: Python
\* raises ZeroDivisionError when it is 0
RaisesZeroDivision(inputs) ==
    ~InvalidInputs(inputs) /\ inputs.machinery_useful_life_years.s = 0

\* Monthly with a fixed 30-day month in place of days_per_month
Monthly_ThirtyDays(daily, days_per_month) == RMul(daily, N(30))

\* lines 263, 267, 274, 280: monthly_X = daily_X * days_per_month
Monthly(daily, days_per_month) == RMul(daily, days_per_month)

\* lines 264, 268, 275, 281, 291: annual_X = monthly_X * 12
Annual(monthly) == RMul(monthly, N(12))

\* DailyByproductGen with the operands of the subtraction exchanged
DailyByproductGen_Swapped(daily_paddy, daily_poha) ==
    RSub(daily_poha, daily_paddy)

\* line 272
DailyByproductGen(daily_paddy, daily_poha) == RSub(daily_paddy, daily_poha)

\* DailyByproductSold without the cap at the quantity generated
DailyByproductSold_Uncapped(target, gen) == target

\* line 273
DailyByproductSold(target, gen) == RMin(target, gen)

\* line 276
ByproductLimitHit(target, gen) == RGt(target, gen)

\* line 279
DailyRevenue(daily_poha, poha_price, sold, byproduct_rate_kg) ==
    RAdd(RMul(daily_poha, poha_price), RMul(sold, byproduct_rate_kg))

\* GrossProfit with the operands of the subtraction exchanged
GrossProfit_Swapped(annual_revenue, annual_cogs) ==
    RSub(annual_cogs, annual_revenue)

\* line 285
GrossProfit(annual_revenue, annual_cogs) == RSub(annual_revenue, annual_cogs)

\* line 294
AnnualDepreciation(inputs) ==
    RDiv(RAdd(inputs.machinery_cost, inputs.civil_work_cost),
         inputs.machinery_useful_life_years)

\* lines 298, 300: the per-day run rate of an annual figure
PerDay365(annual) == RDiv(annual, N(365))

\* InterestWc without the floor at 0: a negative net working capital earns
\* interest
InterestWc_Signed(net_working_capital, interest_rate) ==
    Pct(net_working_capital, interest_rate)

\* line 313
InterestWc(net_working_capital, interest_rate) ==
    Pct(RMax(Zero, net_working_capital), interest_rate)

\* Taxes without the floor at 0: a loss earns a tax refund
Taxes_OnLosses(ebt, tax_rate_percent) == Pct(ebt, tax_rate_percent)

\* line 317
Taxes(ebt, tax_rate_percent) == Pct(RMax(Zero, ebt), tax_rate_percent)

\* Margin following the convention of roce and roe (infinite on a zero
\* denominator) in place of 0
Margin_InfOnZero(metric, annual_revenue) ==
    IF RGt(annual_revenue, Zero)
    THEN RMul(RDiv(metric, annual_revenue), N(100))
    ELSE Inf

\* lines 324, 326, 328, 330: (metric / annual_revenue) * 100 if annual_revenue > 0 else 0
Margin(metric, annual_revenue) ==
    IF RGt(annual_revenue, Zero)
    THEN RMul(RDiv(metric, annual_revenue), Hundred)
    ELSE Zero

\* line 323
Roce(ebit, capital_employed) ==
    IF capital_employed.s # 0
    THEN RMul(RDiv(ebit, capital_employed), Hundred)
    ELSE Inf

\* line 327
Roe(net_profit, equity) ==
    IF RGt(equity, Zero) THEN RMul(RDiv(net_profit, equity), Hundred) ELSE Inf

\* The computation is written as the source's blocks, each extending the
\* record r of the values computed so far.

\* lines 257, 261-276: production and byproduct
Production(inputs) ==
    LET daily_paddy == RMul(inputs.paddy_rate_kg_hr, inputs.hours_per_day)
        monthly_paddy == Monthly(daily_paddy, inputs.days_per_month)
        daily_poha == Pct(daily_paddy, inputs.paddy_yield)
        monthly_poha == Monthly(daily_poha, inputs.days_per_month)
    IN  [ total_capex |-> total_capex(inputs),
          daily_paddy |-> daily_paddy,
          monthly_paddy |-> monthly_paddy,
          annual_paddy |-> Annual(monthly_paddy),
          daily_poha |-> daily_poha,
          monthly_poha |-> monthly_poha,
          annual_poha |-> Annual(monthly_poha),
          daily_byproduct_target |->
              Pct(daily_paddy, inputs.byproduct_sale_percent),
          daily_byproduct_gen |-> DailyByproductGen(daily_paddy, daily_poha) ]

\* lines 273-276
Byproduct(inputs, r) ==
    LET daily_byproduct_sold ==
            DailyByproductSold(r.daily_byproduct_target, r.daily_byproduct_gen)
        monthly_byproduct_sold ==
            Monthly(daily_byproduct_sold, inputs.days_per_month)
    IN  [ daily_byproduct_sold |-> daily_byproduct_sold,
          monthly_byproduct_sold |-> monthly_byproduct_sold,
          annual_byproduct_sold |-> Annual(monthly_byproduct_sold),
          byproduct_limit_hit |->
              ByproductLimitHit(r.daily_byproduct_target, r.daily_byproduct_gen) ]
        @@ r

\* lines 278-281
Revenue(inputs, r) ==
    LET daily_revenue ==
            DailyRevenue(r.daily_poha, inputs.poha_price,
                         r.daily_byproduct_sold, inputs.byproduct_rate_kg)
        monthly_revenue == Monthly(daily_revenue, inputs.days_per_month)
    IN  [ daily_revenue |-> daily_revenue,
          monthly_revenue |-> monthly_revenue,
          annual_revenue |-> Annual(monthly_revenue) ] @@ r

\* lines 283-292
Costs(inputs, r) ==
    LET annual_cogs == RMul(r.annual_paddy, inputs.paddy_rate)
        var_cost_per_kg ==
            RAdd(RAdd(inputs.packaging_cost, inputs.fuel_cost),
                 inputs.other_var_cost)
        annual_var_costs == RMul(r.annual_paddy, var_cost_per_kg)
        monthly_fixed_opex ==
            RAdd(RAdd(RAdd(RAdd(inputs.rent_per_month, inputs.labor_per_month),
                           inputs.electricity_per_month),
                      inputs.security_ssc_insurance_per_month),
                 inputs.misc_per_month)
        annual_fixed_opex == Annual(monthly_fixed_opex)
    IN  [ annual_cogs |-> annual_cogs,
          gross_profit |-> GrossProfit(r.annual_revenue, annual_cogs),
          total_var_cost_per_kg |-> var_cost_per_kg,
          annual_var_costs |-> annual_var_costs,
          annual_fixed_opex |-> annual_fixed_opex,
          total_opex |-> RAdd(annual_fixed_opex, annual_var_costs) ] @@ r

\* lines 294-295
OperatingIncome(inputs, r) ==
    LET annual_depreciation == AnnualDepreciation(inputs)
    IN  [ annual_depreciation |-> annual_depreciation,
          ebit |-> RSub(RSub(r.gross_profit, r.total_opex),
                        annual_depreciation) ] @@ r

\* lines 297-304
WorkingCapital(inputs, r) ==
    LET daily_cogs == PerDay365(r.annual_cogs)
        daily_prod_cost ==
            IF RGt(r.annual_poha, Zero)
            THEN RDiv(RAdd(r.annual_cogs, r.annual_var_costs), r.annual_poha)
            ELSE Zero
        daily_rev == PerDay365(r.annual_revenue)
    IN  [ rm_inventory |-> RMul(daily_cogs, inputs.rm_inventory_days),
          fg_inventory |->
              RMul(RMul(r.daily_poha, daily_prod_cost),
                   inputs.fg_inventory_days),
          receivables |-> RMul(daily_rev, inputs.debtor_days),
          payables |-> RMul(daily_cogs, inputs.creditor_days) ] @@ r

\* lines 305-307
NetWorkingCapital(r) ==
    LET current_assets ==
            RAdd(RAdd(r.rm_inventory, r.fg_inventory), r.receivables)
        current_liabilities == r.payables
    IN  [ current_assets |-> current_assets,
          current_liabilities |-> current_liabilities,
          net_working_capital |-> RSub(current_assets, current_liabilities) ]
        @@ r

\* lines 309-314
Financing(inputs, r) ==
    LET equity == Pct(r.total_capex, inputs.equity_contrib)
        debt == RSub(r.total_capex, equity)
        interest_fixed == Pct(debt, inputs.interest_rate)
        interest_wc == InterestWc(r.net_working_capital, inputs.interest_rate)
    IN  [ equity |-> equity, debt |-> debt,
          total_interest |-> RAdd(interest_fixed, interest_wc) ] @@ r

\* lines 316-318
ProfitAfterTax(inputs, r) ==
    LET ebt == RSub(r.ebit, r.total_interest)
        taxes == Taxes(ebt, inputs.tax_rate_percent)
    IN  [ ebt |-> ebt, taxes |-> taxes, net_profit |-> RSub(ebt, taxes) ] @@ r

\* Capital with capital_employed taken as total_assets, the current
\* liabilities not deducted
Capital_GrossAssets(r) ==
    LET total_assets == RAdd(r.total_capex, r.current_assets)
    IN  [ total_assets |-> total_assets,
          capital_employed |-> total_assets,
          ebitda |-> RAdd(r.ebit, r.annual_depreciation),
          contribution_margin |-> RSub(r.gross_profit, r.annual_var_costs) ]
        @@ r

\* lines 321-322, 325, 329
Capital(r) ==
    LET total_assets == RAdd(r.total_capex, r.current_assets)
    IN  [ total_assets |-> total_assets,
          capital_employed |-> RSub(total_assets, r.current_liabilities),
          ebitda |-> RAdd(r.ebit, r.annual_depreciation),
          contribution_margin |-> RSub(r.gross_profit, r.annual_var_costs) ]
        @@ r

\* lines 323-330
Ratios(r) ==
    [ roce |-> Roce(r.ebit, r.capital_employed),
      net_profit_margin |-> Margin(r.net_profit, r.annual_revenue),
      ebitda_margin |-> Margin(r.ebitda, r.annual_revenue),
      roe |-> Roe(r.net_profit, r.equity),
      gross_margin |-> Margin(r.gross_profit, r.annual_revenue),
      contribution_margin_pct |->
          Margin(r.contribution_margin, r.annual_revenue) ] @@ r

\* lines 257-331: every local of calculate_financials that the returned
\* dict holds (and current_liabilities), for inputs that pass line 258 and
\* do not raise at line 294
Computed(inputs) ==
    Ratios(Capital(ProfitAfterTax(inputs,
        Financing(inputs, NetWorkingCapital(WorkingCapital(inputs,
            OperatingIncome(inputs, Costs(inputs, Revenue(inputs,
                Byproduct(inputs, Production(inputs)))))))))))

\* the keys of the returned dict other than the inputs' (lines 333-347)
ResultKeys ==
    { "total_capex", "daily_paddy", "monthly_paddy", "annual_paddy",
      "daily_poha", "monthly_poha", "annual_poha", "daily_byproduct_gen",
      "daily_byproduct_sold", "daily_byproduct_target",
      "monthly_byproduct_sold", "annual_byproduct_sold",
      "byproduct_limit_hit", "daily_revenue", "monthly_revenue",
      "annual_revenue", "annual_cogs", "gross_profit", "annual_var_costs",
      "annual_fixed_opex", "total_opex", "annual_depreciation", "ebit",
      "net_working_capital", "equity", "debt", "total_interest", "ebt",
      "taxes", "net_profit", "roce", "net_profit_margin", "ebitda",
      "ebitda_margin", "roe", "gross_margin", "contribution_margin",
      "contribution_margin_pct", "total_var_cost_per_kg", "rm_inventory",
      "fg_inventory", "receivables", "payables", "current_assets",
      "total_assets", "capital_employed" }

\* lines 332-348: {**inputs, 'total_capex': ..., ...}
MergeDict(inputs, computed) ==
    [k \in DOMAIN inputs \cup ResultKeys |->
        IF k \in ResultKeys THEN computed[k] ELSE inputs[k]]

\* The value calculate_financials returns (lines 256-348).  Defined for the
\* inputs on which it returns, i.e. ~RaisesZeroDivision(inputs).
calculate_financials(inputs) ==
    IF InvalidInputs(inputs) THEN ErrorResult
    ELSE MergeDict(inputs, Computed(inputs))


(***************************************************************************)
(* render_dashboard (src/poha.py 372-586): the values it derives from the  *)
(* results.  The strings produced by format_currency / format_crore are    *)
(* not modelled; the tables hold the numbers handed to them.               *)
(***************************************************************************)

\* lines 407-421: the summary table, one row per metric, before formatting
SummaryTable(results) ==
    [ paddy      |-> [daily |-> results.daily_paddy,
                      monthly |-> results.monthly_paddy,
                      annual |-> results.annual_paddy],
      poha       |-> [daily |-> results.daily_poha,
                      monthly |-> results.monthly_poha,
                      annual |-> results.annual_poha],
      byproduct_gen |->
                    [daily |-> results.daily_byproduct_gen,
                     monthly |-> RMul(results.daily_byproduct_gen,
                                      results.days_per_month),
                     annual |-> RMul(RMul(results.daily_byproduct_gen,
                                          results.days_per_month), N(12))],
      byproduct_sold |->
                    [daily |-> results.daily_byproduct_sold,
                     monthly |-> results.monthly_byproduct_sold,
                     annual |-> results.annual_byproduct_sold],
      revenue    |-> [daily |-> results.daily_revenue,
                      monthly |-> results.monthly_revenue,
                      annual |-> results.annual_revenue],
      cogs       |-> [daily |-> PerDay365(results.annual_cogs),
                      monthly |-> RDiv(results.annual_cogs, N(12)),
                      annual |-> results.annual_cogs],
      gross_profit |->
                    [daily |-> PerDay365(results.gross_profit),
                     monthly |-> RDiv(results.gross_profit, N(12)),
                     annual |-> results.gross_profit] ]

\* line 432: the selectbox's options
BreakevenMetrics == {"EBITDA", "Net Profit (PAT)"}

\* FixedCosts counting depreciation as a fixed cost for either metric
FixedCosts_WithDepreciation(results, breakeven_metric) ==
    RAdd(results.annual_fixed_opex, results.annual_depreciation)

\* lines 442-448
FixedCosts(results, breakeven_metric) ==
    IF breakeven_metric = "EBITDA"
    THEN results.annual_fixed_opex
    ELSE RAdd(RAdd(RAdd(results.annual_fixed_opex, results.annual_depreciation),
                   results.total_interest),
              RDiv(RMul(RMax(Zero,
                             RSub(RAdd(results.annual_fixed_opex,
                                       results.annual_depreciation),
                                  results.total_interest)),
                        results.tax_rate_percent),
                   Hundred))

\* BreakevenVol guarding only against a zero contribution
BreakevenVol_NonZeroGuard(fixed_costs, contribution_per_kg) ==
    IF contribution_per_kg.s # 0
    THEN RDiv(fixed_costs, contribution_per_kg)
    ELSE Inf

\* line 450
BreakevenVol(fixed_costs, contribution_per_kg) ==
    IF RGt(contribution_per_kg, Zero)
    THEN RDiv(fixed_costs, contribution_per_kg)
    ELSE Inf

\* line 455: the figure shown as "Breakeven Revenue"
BreakevenRevenue(breakeven_vol, rev_per_kg) ==
    IF breakeven_vol # Inf THEN RMul(breakeven_vol, rev_per_kg) ELSE Zero

\* lines 466-467: whether the dashed breakeven line is added to the chart
BreakevenMarker(breakeven_vol) == breakeven_vol # Inf

\* lines 434-468
BreakevenAnalysis(results, breakeven_metric) ==
    LET rm_cost == results.paddy_rate
        total_var_cost == RAdd(rm_cost, results.total_var_cost_per_kg)
        poha_rev == Pct(results.poha_price, results.paddy_yield)
        byproduct_rev ==
            RMul(results.byproduct_rate_kg,
                 RMin(RDiv(results.byproduct_sale_percent, Hundred),
                      RDiv(RSub(Hundred, results.paddy_yield), Hundred)))
        rev_per_kg == RAdd(poha_rev, byproduct_rev)
        contribution_per_kg == RSub(rev_per_kg, total_var_cost)
        fixed_costs == FixedCosts(results, breakeven_metric)
        breakeven_vol == BreakevenVol(fixed_costs, contribution_per_kg)
    IN  [ breakeven_metric |-> breakeven_metric,
          total_var_cost |-> total_var_cost,
          rev_per_kg |-> rev_per_kg,
          contribution_per_kg |-> contribution_per_kg,
          fixed_costs |-> fixed_costs,
          breakeven_vol |-> breakeven_vol,
          breakeven_revenue |-> BreakevenRevenue(breakeven_vol, rev_per_kg),
          marker |-> BreakevenMarker(breakeven_vol) ]

\* lines 474, 478-479: the selectbox's options and the field each one sweeps
VarKey ==
    [ x \in {"Poha Selling Price", "Paddy Rate", "Paddy to Poha Yield",
             "Byproduct Sale %"} |->
        CASE x = "Poha Selling Price"  -> "poha_price"
          [] x = "Paddy Rate"          -> "paddy_rate"
          [] x = "Paddy to Poha Yield" -> "paddy_yield"
          [] x = "Byproduct Sale %"    -> "byproduct_sale_percent" ]

\* line 481: the number of points of the sweep
SweepPoints == 11

\* Linspace with the end point excluded (step = (stop - start)/num)
Linspace_NoEndpoint(start, stop, num) ==
    [i \in 1..num |->
        RAdd(start, RMul(N(i - 1), RDiv(RSub(stop, start), N(num))))]

\* numpy.linspace(start, stop, num): start + i*step for i = 0..num-2 with
\* step = (stop - start)/(num - 1), and stop itself as the last point
Linspace(start, stop, num) ==
    LET step == RDiv(RSub(stop, start), N(num - 1))
    IN  [i \in 1..num |->
            IF i = num THEN stop ELSE RAdd(start, RMul(N(i - 1), step))]

\* line 481
RangeVals(base_val, lo, hi) ==
    Linspace(RMul(base_val, RAdd(N(1), Q(lo, 100))),
             RMul(base_val, RAdd(N(1), Q(hi, 100))), SweepPoints)

\* line 485: the dict passed to calculate_financials, {**inputs, var_key: val}
SweepArg(inputs, var_key, val) == [inputs EXCEPT ![var_key] = val]

\* the sweep writing the point into inputs itself (inputs[var_key] = val)
InputsAfterSweepCall_InPlace(inputs, var_key, val) ==
    [inputs EXCEPT ![var_key] = val]

\* line 485: {**inputs, var_key: val} is a new dict; inputs itself is left as
\* it was
InputsAfterSweepCall(inputs, var_key, val) == inputs

\* numpy.nan
NaN == [s |-> 0, n |-> << >>, d |-> << >>]

\* lines 486-488: the row appended for one evaluation
SensRow(val, res) ==
    [ value |-> val,
      net_profit |-> IF "net_profit" \in DOMAIN res THEN res.net_profit ELSE NaN,
      label |-> IF "error" \notin DOMAIN res THEN "Cr" ELSE "Error" ]


(***************************************************************************)
(* The state of one run of the script (lines 589-590).                     *)
(***************************************************************************)
VARIABLES
    pc,                 \* where the run is
    inputs,             \* the dict render_sidebar returned
    breakeven_metric,   \* the selectbox of line 432
    sensitivity_var,    \* the selectbox of line 475
    sensitivity_range,  \* the slider of line 476, <<lo, hi>>
    results,            \* render_dashboard's results
    summary,            \* the summary table
    breakeven,          \* the breakeven section's values
    range_vals,         \* the sweep's points
    sens_data,          \* the sweep's rows so far
    call_arg            \* the dict last passed to calculate_financials

vars == <<pc, inputs, breakeven_metric, sensitivity_var, sensitivity_range,
          results, summary, breakeven, range_vals, sens_data, call_arg>>

\* a value not yet assigned
None == [none |-> TRUE]

(***************************************************************************)
(* The sidebar's values.  Each edit sets one field, or a few fields        *)
(* together, away from the CONFIG default, within the widget's min_value   *)
(* and max_value; a session differs from the defaults by at most           *)
(* MaxOverrides edits.                                                     *)
(***************************************************************************)
MaxOverrides == 1

Edits ==
    { {<<"poha_price", N(0)>>},
      {<<"machinery_cost", N(0)>>},
      {<<"machinery_useful_life_years", N(0)>>},
      {<<"machinery_useful_life_years", N(-15)>>},
      {<<"paddy_yield", N(80)>>},
      {<<"byproduct_sale_percent", N(35)>>},
      {<<"paddy_rate_kg_hr", N(0)>>},
      {<<"paddy_rate_kg_hr", N(-1000)>>},
      {<<"equity_contrib", N(0)>>},
      {<<"paddy_rate", N(40)>>},
      {<<"paddy_rate", Q(3099, 100)>>},
      {<<"civil_work_cost", N(1000000)>>},
      {<<"tax_rate_percent", N(0)>>},
      {<<"rent_per_month", N(-2000000)>>},
      {<<"debtor_days", N(400)>>, <<"interest_rate", N(100)>>},
      {<<"rm_inventory_days", N(0)>>, <<"fg_inventory_days", N(0)>>,
       <<"debtor_days", N(0)>>, <<"creditor_days", N(365)>>,
       <<"machinery_cost", N(63360000)>>} }

\* the defaults with the edits of es applied
ApplyEdits(base, es) ==
    LET ps == UNION es
    IN  [k \in DOMAIN base |->
            IF \E p \in ps : p[1] = k
            THEN (CHOOSE p \in ps : p[1] = k)[2]
            ELSE base[k]]

InputSpace ==
    {ApplyEdits(Defaults, es) :
        es \in {x \in SUBSET Edits : Cardinality(x) <= MaxOverrides}}

\* line 476: slider over -50..50, default (-20, 20)
SliderRanges == {<<-20, 20>>, <<-50, 50>>, <<0, 10>>}

Init ==
    /\ pc = "start"
    /\ inputs \in InputSpace
    /\ breakeven_metric \in BreakevenMetrics
    /\ sensitivity_var \in DOMAIN VarKey
    /\ sensitivity_range \in SliderRanges
    /\ results = None
    /\ summary = None
    /\ breakeven = None
    /\ range_vals = << >>
    /\ sens_data = << >>
    /\ call_arg = None

\* lines 373-377: calculate_financials returns the error; it is shown and
\* render_dashboard returns
RenderError ==
    /\ pc = "start"
    /\ InvalidInputs(inputs)
    /\ results' = calculate_financials(inputs)
    /\ call_arg' = inputs
    /\ pc' = "error"
    /\ UNCHANGED <<inputs, breakeven_metric, sensitivity_var, sensitivity_range,
                   summary, breakeven, range_vals, sens_data>>

\* line 373: calculate_financials raises ZeroDivisionError at line 294; the
\* exception is not caught and the run ends
RenderRaise ==
    /\ pc = "start"
    /\ RaisesZeroDivision(inputs)
    /\ call_arg' = inputs
    /\ pc' = "ZeroDivisionError"
    /\ UNCHANGED <<inputs, breakeven_metric, sensitivity_var, sensitivity_range,
                   results, summary, breakeven, range_vals, sens_data>>

\* lines 373-422: results, KPIs and the summary table
RenderSummary ==
    /\ pc = "start"
    /\ ~InvalidInputs(inputs)
    /\ ~RaisesZeroDivision(inputs)
    /\ results' = calculate_financials(inputs)
    /\ summary' = SummaryTable(results')
    /\ call_arg' = inputs
    /\ pc' = "breakeven"
    /\ UNCHANGED <<inputs, breakeven_metric, sensitivity_var, sensitivity_range,
                   breakeven, range_vals, sens_data>>

\* lines 426-468
RenderBreakeven ==
    /\ pc = "breakeven"
    /\ breakeven' = BreakevenAnalysis(results, breakeven_metric)
    /\ pc' = "sensitivity"
    /\ UNCHANGED <<inputs, breakeven_metric, sensitivity_var, sensitivity_range,
                   results, summary, range_vals, sens_data, call_arg>>

\* lines 472-483
StartSweep ==
    /\ pc = "sensitivity"
    /\ range_vals' = RangeVals(inputs[VarKey[sensitivity_var]],
                               sensitivity_range[1], sensitivity_range[2])
    /\ sens_data' = << >>
    /\ pc' = "sweep"
    /\ UNCHANGED <<inputs, breakeven_metric, sensitivity_var, sensitivity_range,
                   results, summary, breakeven, call_arg>>

\* lines 484-488: one iteration of the loop
SweepPoint ==
    /\ pc = "sweep"
    /\ Len(sens_data) < Len(range_vals)
    /\ LET val == range_vals[Len(sens_data) + 1]
           arg == SweepArg(inputs, VarKey[sensitivity_var], val)
       IN  /\ call_arg' = arg
           /\ sens_data' = Append(sens_data, SensRow(val, calculate_financials(arg)))
           /\ inputs' = InputsAfterSweepCall(inputs, VarKey[sensitivity_var], val)
    /\ UNCHANGED <<pc, breakeven_metric, sensitivity_var, sensitivity_range,
                   results, summary, breakeven, range_vals>>

\* lines 490-586 with daily_revenue # 0: the sweep's table and chart, the
\* statements and the detailed breakdowns; render_dashboard returns
RenderDetails ==
    /\ pc = "sweep"
    /\ Len(sens_data) = Len(range_vals)
    /\ results.daily_revenue.s # 0
    /\ pc' = "done"
    /\ UNCHANGED <<inputs, breakeven_metric, sensitivity_var, sensitivity_range,
                   results, summary, breakeven, range_vals, sens_data, call_arg>>

\* lines 490-557 with daily_revenue = 0: line 557 divides by daily_revenue
\* and Python raises ZeroDivisionError
RenderDetailsRaise ==
    /\ pc = "sweep"
    /\ Len(sens_data) = Len(range_vals)
    /\ results.daily_revenue.s = 0
    /\ pc' = "ZeroDivisionError"
    /\ UNCHANGED <<inputs, breakeven_metric, sensitivity_var, sensitivity_range,
                   results, summary, breakeven, range_vals, sens_data, call_arg>>

Next ==
    \/ RenderError
    \/ RenderRaise
    \/ RenderSummary
    \/ RenderBreakeven
    \/ StartSweep
    \/ SweepPoint
    \/ RenderDetails
    \/ RenderDetailsRaise

Spec == Init /\ [][Next]_vars


(***************************************************************************)
(* Properties of calculate_financials and of the summary table.            *)
(***************************************************************************)

\* render_dashboard holds the results of a call that passed validation
HasResults == "net_profit" \in DOMAIN results

\* the first call of the run has ended (returned or raised)
Called == pc # "start"

\* C1 (as claimed): calculate_financials returns the validation error if
\* and only if paddy_yield <= 0 or poha_price <= 0 or total_capex <= 0 or
\* machinery_useful_life_years <= 0, and an error result carries only the
\* error.
C1_ValidationGate ==
    Called =>
        /\ ("error" \in DOMAIN results) <=>
               \/ RLe(inputs.paddy_yield, Zero)
               \/ RLe(inputs.poha_price, Zero)
               \/ RLe(RAdd(RAdd(inputs.land_cost, inputs.civil_work_cost),
                           inputs.machinery_cost), Zero)
               \/ RLe(inputs.machinery_useful_life_years, Zero)
        /\ ("error" \in DOMAIN results) => DOMAIN results = {"error"}

\* C2: whenever results are returned, daily_byproduct_sold <=
\* daily_byproduct_gen, and byproduct_limit_hit holds exactly when the
\* target daily_paddy * byproduct_sale_percent/100 is strictly greater than
\* daily_byproduct_gen; at target = generated the flag is false and
\* sold = generated.
C2_ByproductCap ==
    HasResults =>
        LET target == RMul(results.daily_paddy,
                           RDiv(inputs.byproduct_sale_percent, N(100)))
        IN  /\ RLe(results.daily_byproduct_sold, results.daily_byproduct_gen)
            /\ results.byproduct_limit_hit
                   <=> RGt(target, results.daily_byproduct_gen)
            /\ REq(target, results.daily_byproduct_gen) =>
                   /\ ~results.byproduct_limit_hit
                   /\ REq(results.daily_byproduct_sold,
                          results.daily_byproduct_gen)

\* C2 witness: results whose target equals the byproduct generated
C2_Witness_Equal ==
    /\ HasResults
    /\ results.daily_paddy.s = 1
    /\ REq(results.daily_byproduct_target, results.daily_byproduct_gen)
    /\ ~results.byproduct_limit_hit

\* C3: whenever validation passes, daily_poha + daily_byproduct_gen =
\* daily_paddy and daily_poha = daily_paddy * paddy_yield/100.
C3_MassBalance ==
    HasResults =>
        /\ REq(RAdd(results.daily_poha, results.daily_byproduct_gen),
               results.daily_paddy)
        /\ REq(results.daily_poha,
               RDiv(RMul(results.daily_paddy, inputs.paddy_yield), N(100)))

\* C3 witness: results for a day with paddy processed and byproduct left
C3_Witness ==
    /\ HasResults
    /\ results.daily_paddy.s = 1
    /\ results.daily_byproduct_gen.s = 1
    /\ results.daily_poha.s = 1

\* annual = monthly * 12 = daily * days_per_month * 12
ScaleConsistent(daily, monthly, annual) ==
    /\ REq(annual, RMul(monthly, N(12)))
    /\ REq(annual, RMul(RMul(daily, inputs.days_per_month), N(12)))

\* C4: whenever validation passes, paddy input, poha output, byproduct sold
\* and revenue each satisfy annual = monthly * 12 = daily * days_per_month
\* * 12.
C4_ScaleConsistency ==
    HasResults =>
        /\ ScaleConsistent(results.daily_paddy, results.monthly_paddy,
                           results.annual_paddy)
        /\ ScaleConsistent(results.daily_poha, results.monthly_poha,
                           results.annual_poha)
        /\ ScaleConsistent(results.daily_byproduct_sold,
                           results.monthly_byproduct_sold,
                           results.annual_byproduct_sold)
        /\ ScaleConsistent(results.daily_revenue, results.monthly_revenue,
                           results.annual_revenue)

\* C4 witness: results with non-zero flows
C4_Witness ==
    /\ HasResults
    /\ results.annual_revenue.s = 1
    /\ results.annual_byproduct_sold.s = 1
    /\ ~REq(results.annual_revenue, results.monthly_revenue)

\* C5 (as claimed): the daily and monthly COGS figures of the summary table
\* satisfy annual_cogs = monthly_cogs * 12 = daily_cogs * days_per_month *
\* 12.
C5_CogsScaleConsistency ==
    (HasResults /\ summary # None) =>
        ScaleConsistent(summary.cogs.daily, summary.cogs.monthly,
                        results.annual_cogs)

\* C6: when annual_revenue = 0 the four margins are exactly 0; when
\* capital_employed = 0 roce is +infinity; when equity = 0 roe is
\* +infinity.
C6_RatioConventions ==
    HasResults =>
        /\ results.annual_revenue.s = 0 =>
               /\ results.gross_margin = Zero
               /\ results.contribution_margin_pct = Zero
               /\ results.ebitda_margin = Zero
               /\ results.net_profit_margin = Zero
        /\ results.capital_employed.s = 0 => results.roce = Inf
        /\ results.equity.s = 0 => results.roe = Inf

\* C6 witness: results with zero revenue
C6_Witness_ZeroRevenue ==
    /\ HasResults
    /\ results.annual_revenue.s = 0
    /\ results.net_profit.s = -1
    /\ results.net_profit_margin = Zero

\* further cases of C6 that the sessions reach
C6_Reach_ZeroCapitalEmployed ==
    HasResults /\ results.capital_employed.s = 0 /\ results.roce = Inf

C6_Reach_ZeroEquity ==
    HasResults /\ results.equity.s = 0 /\ results.roe = Inf


(***************************************************************************)
(* Properties of the sensitivity sweep and of the breakeven section.       *)
(***************************************************************************)

\* the rows of a sweep over poha_price: evaluations of records that differ
\* only in poha_price
PriceSweep == pc # "start" /\ sensitivity_var = "Poha Selling Price"

\* net_profit never decreases from a row to a row of higher value
RowsMonotone ==
    \A i, j \in 1..Len(sens_data) :
        RLe(sens_data[i].value, sens_data[j].value)
            => RLe(sens_data[i].net_profit, sens_data[j].net_profit)

\* C7 (as claimed): for two accepted records that differ only in
\* poha_price, p1 <= p2 implies net_profit(p1) <= net_profit(p2).
C7_PriceMonotone == PriceSweep => RowsMonotone

\* C7 (amended): the same, for records whose annual throughput
\* paddy_rate_kg_hr * hours_per_day * days_per_month is not negative, whose
\* tax_rate_percent is at most 100 and whose debtor_days * interest_rate is
\* at most 36500 (so that the interest on the receivables a unit of revenue
\* adds does not exceed that unit).
PriceMonotoneCondition ==
    /\ RLe(Zero, RMul(RMul(inputs.paddy_rate_kg_hr, inputs.hours_per_day),
                      inputs.days_per_month))
    /\ RLe(inputs.tax_rate_percent, N(100))
    /\ RLe(RMul(inputs.debtor_days, inputs.interest_rate), N(36500))

C7_PriceMonotoneAmended ==
    (PriceSweep /\ PriceMonotoneCondition) => RowsMonotone

\* C7 witness: a completed sweep over poha_price, under the condition, in
\* which net_profit grows strictly from the first to the last point
C7_Witness ==
    /\ PriceSweep
    /\ PriceMonotoneCondition
    /\ Len(sens_data) = SweepPoints
    /\ RLt(sens_data[1].value, sens_data[SweepPoints].value)
    /\ RLt(sens_data[1].net_profit, sens_data[SweepPoints].net_profit)

SweepValue(b, lo, hi, i) ==
    LET first == RMul(b, RAdd(N(1), Q(lo, 100)))
        last  == RMul(b, RAdd(N(1), Q(hi, 100)))
    IN  RAdd(first, RDiv(RMul(N(i - 1), RSub(last, first)), N(10)))

\* the sweep has started
InSweep == pc = "sweep" \/ (pc \in {"done", "ZeroDivisionError"} /\ HasResults)

\* the row i of the sweep is the evaluation of the inputs with the swept
\* field set to point i: its net_profit, or the error marker
RowOfPoint(i) ==
    LET arg == [k \in DOMAIN inputs |->
                   IF k = VarKey[sensitivity_var] THEN range_vals[i]
                   ELSE inputs[k]]
        res == calculate_financials(arg)
    IN  /\ sens_data[i].value = range_vals[i]
        /\ \/ /\ "error" \in DOMAIN res
              /\ sens_data[i].label = "Error"
              /\ sens_data[i].net_profit = NaN
           \/ /\ "error" \notin DOMAIN res
              /\ sens_data[i].label # "Error"
              /\ sens_data[i].net_profit = res.net_profit

\* C9: the sweep has exactly 11 points, point i (i = 0..10) being
\* b*(1+lo/100) + i*(b*(1+hi/100) - b*(1+lo/100))/10; each row, in order, is
\* the evaluation of a record equal to the inputs except in the swept
\* field, holding its net_profit or an error marker; and the loop ends only
\* after all 11 points.
C9_Sweep ==
    InSweep =>
        /\ DOMAIN range_vals = 1..11
        /\ \A i \in 1..11 :
               REq(range_vals[i],
                   SweepValue(inputs[VarKey[sensitivity_var]],
                              sensitivity_range[1], sensitivity_range[2], i))
        /\ Len(sens_data) <= 11
        /\ \A i \in 1..Len(sens_data) : RowOfPoint(i)
        /\ Len(sens_data) > 0 =>
               /\ \A k \in DOMAIN inputs \ {VarKey[sensitivity_var]} :
                      call_arg[k] = inputs[k]
               /\ call_arg[VarKey[sensitivity_var]]
                      = range_vals[Len(sens_data)]
        /\ pc # "sweep" => Len(sens_data) = 11

\* C9 witness: a completed sweep over a range with lo < hi
C9_Witness ==
    /\ pc = "done"
    /\ Len(sens_data) = 11
    /\ sensitivity_range[1] < sensitivity_range[2]
    /\ RLt(sens_data[1].value, sens_data[2].value)
    /\ sens_data[11].label # "Error"

\* C10: the breakeven volume is fixed_costs / contribution_per_kg when
\* contribution_per_kg > 0 and +infinity when contribution_per_kg <= 0; in
\* the infinite case the breakeven revenue shown is 0, no breakeven marker
\* is placed and the run goes on into the sensitivity section without an
\* error (the one exception a run can still meet is line 557's, after the
\* whole sweep).
C10_Breakeven ==
    breakeven # None =>
        /\ RGt(breakeven.contribution_per_kg, Zero) =>
               /\ breakeven.breakeven_vol # Inf
               /\ REq(RMul(breakeven.breakeven_vol,
                           breakeven.contribution_per_kg),
                      breakeven.fixed_costs)
        /\ RLe(breakeven.contribution_per_kg, Zero) =>
               /\ breakeven.breakeven_vol = Inf
               /\ breakeven.breakeven_revenue = Zero
               /\ ~breakeven.marker
               /\ pc # "breakeven"
               /\ pc = "ZeroDivisionError" => Len(sens_data) = SweepPoints

\* C10 witness: a breakeven section computed with contribution_per_kg
\* exactly 0
C10_Witness_ZeroContribution ==
    /\ breakeven # None
    /\ breakeven.contribution_per_kg.s = 0
    /\ breakeven.breakeven_vol = Inf
    /\ pc = "done"

\* further cases of C10 that the sessions reach
C10_Reach_Negative ==
    breakeven # None /\ breakeven.contribution_per_kg.s = -1 /\ pc = "done"

C10_Reach_Positive ==
    /\ breakeven # None
    /\ breakeven.contribution_per_kg.s = 1
    /\ breakeven.breakeven_vol.s = 1

(***************************************************************************)
(* Properties of the breakeven volume as a throughput.                     *)
(***************************************************************************)

\* the inputs with paddy_rate_kg_hr set so that annual_paddy is vol, every
\* other field as it is
AtVolume(inp, vol) ==
    [inp EXCEPT !.paddy_rate_kg_hr =
        RDiv(vol, RMul(RMul(inp.hours_per_day, inp.days_per_month), N(12)))]

\* the breakeven section has run with the given metric and found a
\* positive contribution per kg
BreakevenFound(metric) ==
    /\ breakeven # None
    /\ breakeven.breakeven_metric = metric
    /\ RGt(breakeven.contribution_per_kg, Zero)

\* the helper's per-kg figures, times annual_paddy, are the engine's
HelperAgreesWithEngine ==
    /\ REq(RMul(breakeven.rev_per_kg, results.annual_paddy),
           results.annual_revenue)
    /\ REq(RMul(breakeven.total_var_cost, results.annual_paddy),
           RAdd(results.annual_cogs, results.annual_var_costs))

\* the evaluation at the breakeven volume has ebitda = 0
EbitdaZeroAtBreakeven ==
    LET res == calculate_financials(AtVolume(inputs, breakeven.breakeven_vol))
    IN  /\ REq(res.annual_paddy, breakeven.breakeven_vol)
        /\ res.ebitda.s = 0

\* C11 (as claimed): with metric EBITDA and contribution_per_kg > 0,
\* rev_per_kg * annual_paddy = annual_revenue, total_var_cost * annual_paddy
\* = annual_cogs + annual_var_costs, and the evaluation whose annual_paddy
\* is breakeven_vol has ebitda = 0.
C11_EbitdaBreakeven ==
    BreakevenFound("EBITDA") =>
        HelperAgreesWithEngine /\ EbitdaZeroAtBreakeven

\* C11 (amended): the helper agrees with the engine when annual_paddy >= 0,
\* and the evaluation at breakeven_vol has ebitda = 0 when annual_fixed_opex
\* >= 0 (so that breakeven_vol >= 0).
C11_EbitdaBreakevenAmended ==
    BreakevenFound("EBITDA") =>
        /\ RLe(Zero, results.annual_paddy) => HelperAgreesWithEngine
        /\ RLe(Zero, results.annual_fixed_opex) => EbitdaZeroAtBreakeven

\* C11 witness: an EBITDA breakeven volume that is positive and is not the
\* throughput of the run, which is positive too
C11_Witness ==
    /\ BreakevenFound("EBITDA")
    /\ results.annual_paddy.s = 1
    /\ breakeven.breakeven_vol.s = 1
    /\ ~REq(breakeven.breakeven_vol, results.annual_paddy)
    /\ results.ebitda.s # 0

\* C12 (as claimed): with metric Net Profit (PAT) and contribution_per_kg >
\* 0, the evaluation whose annual_paddy is breakeven_vol, every other
\* assumption fixed, has net_profit = 0.
C12_NetProfitBreakeven ==
    BreakevenFound("Net Profit (PAT)") =>
        LET res == calculate_financials(
                       AtVolume(inputs, breakeven.breakeven_vol))
        IN  /\ REq(res.annual_paddy, breakeven.breakeven_vol)
            /\ res.net_profit.s = 0

(***************************************************************************)
(* Properties of the results record.                                       *)
(***************************************************************************)

\* C13: on the example scenario (the CONFIG defaults) calculate_financials
\* reports daily_paddy = 10,000, daily_poha = 6,500, daily_byproduct_gen =
\* 3,500, daily_byproduct_target = 3,200, byproduct_limit_hit = false and
\* net_profit > 0.
C13_ExampleScenario ==
    (Called /\ inputs = Defaults) =>
        /\ HasResults
        /\ REq(results.daily_paddy, N(10000))
        /\ REq(results.daily_poha, N(6500))
        /\ REq(results.daily_byproduct_gen, N(3500))
        /\ REq(results.daily_byproduct_target, N(3200))
        /\ results.byproduct_limit_hit = FALSE
        /\ RGt(results.net_profit, Zero)

\* C13 witness: a run on the example scenario, through to its end
C13_Witness ==
    /\ inputs = Defaults
    /\ REq(inputs.paddy_rate_kg_hr, N(1000))
    /\ REq(inputs.machinery_cost, N(7000000))
    /\ HasResults
    /\ pc = "done"

\* C14: in every results record capital_employed = total_capex +
\* net_working_capital, with net_working_capital = rm_inventory +
\* fg_inventory + receivables - payables and total_assets = total_capex +
\* current_assets.
C14_CapitalEmployed ==
    HasResults =>
        /\ REq(results.capital_employed,
               RAdd(results.total_capex, results.net_working_capital))
        /\ REq(results.net_working_capital,
               RSub(RAdd(RAdd(results.rm_inventory, results.fg_inventory),
                         results.receivables),
                    results.payables))
        /\ REq(results.total_assets,
               RAdd(results.total_capex, results.current_assets))

\* C14 witness: results with payables and a net working capital that are
\* not zero
C14_Witness ==
    /\ HasResults
    /\ results.payables.s = 1
    /\ results.net_working_capital.s = 1
    /\ ~REq(results.capital_employed, results.total_assets)

\* C15: in every results record equity = total_capex * equity_contrib/100
\* and debt = total_capex - equity; if net_working_capital <= 0 then
\* total_interest = debt * interest_rate/100, and if net_working_capital >
\* 0 then total_interest = debt * interest_rate/100 + net_working_capital
\* * interest_rate/100.
C15_WorkingCapitalInterest ==
    HasResults =>
        LET fixed == RDiv(RMul(results.debt, inputs.interest_rate), N(100))
            wc    == RDiv(RMul(results.net_working_capital,
                               inputs.interest_rate), N(100))
        IN  /\ REq(results.equity,
                   RDiv(RMul(results.total_capex, inputs.equity_contrib),
                        N(100)))
            /\ REq(results.debt, RSub(results.total_capex, results.equity))
            /\ RLe(results.net_working_capital, Zero) =>
                   REq(results.total_interest, fixed)
            /\ RGt(results.net_working_capital, Zero) =>
                   REq(results.total_interest, RAdd(fixed, wc))

\* C15 witness: results with a negative net working capital and an
\* interest rate that is not zero
C15_Witness_NegativeNwc ==
    /\ HasResults
    /\ results.net_working_capital.s = -1
    /\ inputs.interest_rate.s = 1
    /\ results.total_interest.s = 1

\* a further case of C15 that the sessions reach
C15_Reach_PositiveNwc ==
    /\ HasResults
    /\ results.net_working_capital.s = 1
    /\ inputs.interest_rate.s = 1

\* C16: in every results record, if ebt <= 0 then taxes = 0 and net_profit
\* = ebt; if ebt > 0 then taxes = ebt * tax_rate_percent/100 and net_profit
\* = ebt - taxes; in both cases ebt = ebit - total_interest and ebitda =
\* ebit + annual_depreciation.
C16_NoTaxOnLosses ==
    HasResults =>
        /\ RLe(results.ebt, Zero) =>
               /\ results.taxes.s = 0
               /\ REq(results.net_profit, results.ebt)
        /\ RGt(results.ebt, Zero) =>
               /\ REq(results.taxes,
                      RDiv(RMul(results.ebt, inputs.tax_rate_percent),
                           N(100)))
               /\ REq(results.net_profit, RSub(results.ebt, results.taxes))
        /\ REq(results.ebt, RSub(results.ebit, results.total_interest))
        /\ REq(results.ebitda,
               RAdd(results.ebit, results.annual_depreciation))

\* C16 witness: results with a loss before tax at a tax rate that is not
\* zero
C16_Witness_Loss ==
    /\ HasResults
    /\ results.ebt.s = -1
    /\ inputs.tax_rate_percent.s = 1
    /\ results.taxes.s = 0

\* a further case of C16 that the sessions reach
C16_Reach_Profit ==
    /\ HasResults
    /\ results.ebt.s = 1
    /\ results.taxes.s = 1

\* C17 (as claimed): whenever calculate_financials has returned results,
\* render_dashboard runs on without a division by zero.
C17_NoDivisionByZero ==
    HasResults => pc # "ZeroDivisionError"

=============================================================================
